---- MODULE Spec2Model ----
(***************************************************************************)
(* A model of the download orchestration core of yaytb:                    *)
(*   - DownloadQueue (queue.js): bounded-concurrency FIFO job queue;       *)
(*   - SessionStore (downloader.js) and the bot's handlers (index.js),     *)
(*     each handler a process that is suspended at its awaits.             *)
(* The JavaScript event loop is single-threaded: every action below is one *)
(* synchronous segment of code, from one suspension point to the next.     *)
(***************************************************************************)
EXTENDS Integers, Sequences, FiniteSets, TLC

VARIABLES
    dq,          \* the DownloadQueue instance: concurrency, activeCount, queue
    jobs,        \* the job objects made by enqueue, and their promises
    starting,    \* microtasks `() => job.task()` queued by #runJob, in order
    nextJob,     \* how many jobs enqueue has made so far
    sessions,    \* the SessionStore's map: conversation -> session
    handlers,    \* the bot's handler invocations, each at one of its awaits
    nextUpdate,  \* how many updates the bot has received so far
    clock        \* Date.now(), as a logical time

queueVars == <<dq, jobs, starting, nextJob>>
botVars == <<sessions, handlers, nextUpdate, clock>>
vars == <<dq, jobs, starting, nextJob, sessions, handlers, nextUpdate, clock>>

----------------------------------------------------------------------------
(* Bounds of the model *)

MaxConcurrency == 2
MaxJobs == 4
MaxUpdates == 4
MaxInFlight == 2
MaxRuns == 2

JobIds == 1..MaxJobs
UpdateIds == 1..MaxUpdates

Chats == {"c1", "c2"}
Users == {"alice", "bob", "mallory"}
Urls == {"urlA", "urlB"}
Types == {"audio", "video"}
\* The kinds chosen in the conversations: the handlers treat both alike.
KindsChosen == {"audio"}

----------------------------------------------------------------------------
(* Values *)

Undef == "undefined"
Pending == [state |-> "pending"]

\* What a task can end with: a returned value or a thrown error.
TaskValues == {"v1", "v2"}
TaskErrors == {"e1"}
Outcomes == [ok : {TRUE}, val : TaskValues] \cup [ok : {FALSE}, val : TaskErrors]

\* A job slot nobody has used yet.
NoOutcome == [ok |-> TRUE, val |-> Undef]
NoJob == [st |-> "idle", out |-> NoOutcome, promise |-> Pending,
          position |-> 0, queued |-> FALSE,
          chat |-> Undef, then |-> "none"]

----------------------------------------------------------------------------
(* DownloadQueue, queue.js *)

\* constructor(concurrency = 1)
DownloadQueueNew(c) == [concurrency |-> IF c >= 1 THEN c ELSE 1,
                        activeCount |-> 0,
                        queue |-> <<>>]

\* The state the queue's methods work on.
World == [dq |-> dq, jobs |-> jobs, starting |-> starting]

\* #runJob(job), its synchronous part: take a slot, queue the microtask that
\* will call job.task().
runJob(w, j) ==
    [w EXCEPT !.dq.activeCount = @ + 1,
              !.jobs[j].st = "scheduled",
              !.starting = Append(@, j)]

\* A variant of shouldQueue that keeps the last slot free.
shouldQueue_Early(q) == q.activeCount + 1 >= q.concurrency

\* A variant of shouldQueue that admits one task too many.
shouldQueue_OffByOne(q) == q.activeCount > q.concurrency

shouldQueue(q) == q.activeCount >= q.concurrency

\* A variant of position that counts the waiters from 0.
position_ZeroBased(q) == IF shouldQueue(q) THEN Len(q.queue) ELSE 0

position(q) == IF shouldQueue(q) THEN Len(q.queue) + 1 ELSE 0

\* enqueue(task): job j is the object made for this call.
enqueue(w, j) ==
    LET handle == [w EXCEPT !.jobs[j].position = position(w.dq),
                            !.jobs[j].queued = shouldQueue(w.dq)]
    IN  IF shouldQueue(w.dq)
        THEN [handle EXCEPT !.dq.queue = Append(@, j),
                            !.jobs[j].st = "waiting"]
        ELSE runJob(handle, j)

\* A variant of settle without the .catch: a failure resolves the promise.
settle_AlwaysResolve(w, j) ==
    [w EXCEPT !.jobs[j].st = "settled",
              !.jobs[j].promise = [state |-> "resolved", val |-> w.jobs[j].out.val]]

\* The .then / .catch of #runJob: settle the job's promise with the task's
\* outcome.
settle(w, j) ==
    [w EXCEPT !.jobs[j].st = "settled",
              !.jobs[j].promise = [state |-> IF w.jobs[j].out.ok THEN "resolved"
                                                                 ELSE "rejected",
                                   val |-> w.jobs[j].out.val]]

\* A variant of release that starts the head waiter and leaves it on the
\* wait list (queue[0], not queue.shift()).
release_NoShift(w, j) ==
    LET freed == [w EXCEPT !.dq.activeCount = @ - 1,
                           !.jobs[j].st = "released"]
    IN  IF freed.dq.queue # <<>>
        THEN runJob(freed, Head(freed.dq.queue))
        ELSE freed

\* A variant of release that starts the newest waiter (pop, not shift).
release_Lifo(w, j) ==
    LET freed == [w EXCEPT !.dq.activeCount = @ - 1,
                           !.jobs[j].st = "released"]
        n == Len(freed.dq.queue)
    IN  IF n > 0
        THEN runJob([freed EXCEPT !.dq.queue = SubSeq(@, 1, n - 1)], freed.dq.queue[n])
        ELSE freed

\* A variant of release that runs only after a success (.then, not .finally).
release_OnlyOnSuccess(w, j) ==
    LET freed == [w EXCEPT !.dq.activeCount = @ - 1,
                           !.jobs[j].st = "released"]
    IN  IF ~w.jobs[j].out.ok
        THEN [w EXCEPT !.jobs[j].st = "released"]
        ELSE IF freed.dq.queue # <<>>
        THEN runJob([freed EXCEPT !.dq.queue = Tail(@)], Head(freed.dq.queue))
        ELSE freed

\* A variant of release that frees the slot and forgets the waiters.
release_NoHandover(w, j) ==
    [w EXCEPT !.dq.activeCount = @ - 1,
              !.jobs[j].st = "released"]

\* The .finally of #runJob: release the slot, start the next waiter.
release(w, j) ==
    LET freed == [w EXCEPT !.dq.activeCount = @ - 1,
                           !.jobs[j].st = "released"]
    IN  IF freed.dq.queue # <<>>
        THEN runJob([freed EXCEPT !.dq.queue = Tail(@)], Head(freed.dq.queue))
        ELSE freed

Become(w) ==
    /\ dq' = w.dq
    /\ jobs' = w.jobs
    /\ starting' = w.starting

----------------------------------------------------------------------------
(* The steps of the queue and of its jobs *)

Enqueue ==
    /\ nextJob < MaxJobs
    /\ nextJob' = nextJob + 1
    /\ Become(enqueue(World, nextJob + 1))
    /\ UNCHANGED botVars

\* The microtask queued by #runJob runs: job.task() is called.
TaskStart ==
    /\ starting # <<>>
    /\ jobs' = [jobs EXCEPT ![Head(starting)].st = "running"]
    /\ starting' = Tail(starting)
    /\ UNCHANGED <<dq, nextJob>>
    /\ UNCHANGED botVars

\* The task's promise settles (a throw inside task() included).
TaskEnd(j, o) ==
    /\ jobs[j].st = "running"
    /\ jobs' = [jobs EXCEPT ![j].st = "finished", ![j].out = o]
    /\ UNCHANGED <<dq, starting, nextJob>>
    /\ UNCHANGED botVars

JobSettle(j) ==
    /\ jobs[j].st = "finished"
    /\ Become(settle(World, j))
    /\ UNCHANGED <<nextJob, botVars>>

JobFinally(j) ==
    /\ jobs[j].st = "settled"
    /\ Become(release(World, j))
    /\ UNCHANGED <<nextJob, botVars>>

----------------------------------------------------------------------------
(* config.js *)

AUTHORIZED_USER_IDS == {"alice", "bob"}

\* MAX_FILE_SIZE_BYTES, for the default MAX_FILE_SIZE_MB of 48
MAX_FILE_SIZE_MB == 48
MAX_FILE_SIZE_BYTES == MAX_FILE_SIZE_MB * 1024 * 1024

\* MAX_CONCURRENT_DOWNLOADS, its default
MAX_CONCURRENT_DOWNLOADS == 2

----------------------------------------------------------------------------
(* SessionStore, downloader.js *)

\* A message id field that was never set, and one set to null.
MsgUndef == -1
MsgNull == 0

\* message_id of the messages the bot sends and stores: the kind prompt, the
\* format prompt, and the retry prompts of the fmt handler and of the job's
\* continuation.  The code only tests a stored id for truthiness.
MessageId == [selection |-> 1, format |-> 2, retry |-> 3, another |-> 4]

\* {} : an object with no field set.
EmptyObject ==
    [present |-> TRUE, createdAt |-> 0, url |-> Undef, userId |-> Undef,
     selectionMessageId |-> MsgUndef, formatMessageId |-> MsgUndef,
     type |-> Undef, title |-> Undef, webpageUrl |-> Undef,
     durationSeconds |-> Undef, formats |-> <<>>]

\* What Map.get returns for a missing key.
NoSession == [EmptyObject EXCEPT !.present = FALSE]

\* { ...existing, ...updated }
Spread(existing, updated) ==
    [f \in DOMAIN existing |-> IF f \in DOMAIN updated THEN updated[f] ELSE existing[f]]

create(m, chatId, initialState, now) ==
    [m EXCEPT ![chatId] = Spread([EmptyObject EXCEPT !.createdAt = now], initialState)]

get(m, chatId) == m[chatId]

\* A variant of update that stores the update alone, without ...existing.
update_NoSpread(m, chatId, updater) ==
    [m EXCEPT ![chatId] = Spread(EmptyObject, updater)]

update(m, chatId, updater) ==
    LET existing == IF m[chatId].present THEN m[chatId] ELSE EmptyObject
    IN  [m EXCEPT ![chatId] = Spread(existing, updater)]

\* A variant of delete that clears the whole map.
delete_Clear(m, chatId) == [c \in DOMAIN m |-> NoSession]

delete(m, chatId) == [m EXCEPT ![chatId] = NoSession]

----------------------------------------------------------------------------
(* The probe and the Format Selector, as the handlers see them *)

\* The metadata yt-dlp reports for a URL.
TitleOf(url) == CASE url = "urlA" -> "title of urlA"
                  [] url = "urlB" -> "title of urlB"
                  [] OTHER -> Undef
DurationOf(url) == CASE url = "urlA" -> "duration of urlA"
                     [] url = "urlB" -> "duration of urlB"
                     [] OTHER -> Undef

\* getFormatsByType(formats, type) for the formats of `url`: a small
\* candidate and one estimated over the size limit.  A candidate's id is
\* (src, kind, id).
Candidates(url, type) ==
    << [src |-> url, kind |-> type, id |-> 1, estimatedSizeBytes |-> 1000000],
       [src |-> url, kind |-> type, id |-> 2, estimatedSizeBytes |-> 2000000000] >>

ProbeResults == {"error", "empty", "formats"}

----------------------------------------------------------------------------
(* The bot's handlers, index.js *)

isAuthorized(userId) == userId \in AUTHORIZED_USER_IDS

NewHandler == [pc |-> "new", kind |-> "none", chat |-> Undef, user |-> Undef,
               session |-> NoSession, url |-> Undef, type |-> Undef, index |-> 0]
DoneHandler == [NewHandler EXCEPT !.pc = "done"]

\* The handlers that are suspended at an await.
InFlight == {h \in UpdateIds : handlers[h].pc \notin {"new", "done"}}

\* The update that arrives next, and its handler.
Arrives(h) ==
    /\ nextUpdate < MaxUpdates
    /\ Cardinality(InFlight) < MaxInFlight
    /\ h = nextUpdate + 1
    /\ nextUpdate' = h

Returns(h) == handlers' = [handlers EXCEPT ![h] = DoneHandler]

\* The `session` a handler has read from the store and still holds at its
\* awaits: a stale copy once the store is updated.  Only the fields the
\* handler reads after its first await are kept.
Captured(session, fields) ==
    [f \in DOMAIN session |-> IF f \in fields THEN session[f] ELSE NoSession[f]]

\* A handler that returns at its first await and has changed nothing (a
\* rejected call, a cancel with nothing to cancel) leaves no trace.
LeavesNoTrace == UNCHANGED vars

Suspends(h, kind, pc, chatId, userId, local) ==
    handlers' = [handlers EXCEPT ![h] =
                    Spread([NewHandler EXCEPT !.kind = kind, !.pc = pc,
                                               !.chat = chatId, !.user = userId],
                           local)]

Resumes(h, kind, pc) ==
    /\ handlers[h].kind = kind
    /\ handlers[h].pc = pc

MovesTo(h, pc) == handlers' = [handlers EXCEPT ![h].pc = pc]

\* bot.on("text"), from the deletion of the old session on: lines 133-147.
\* The handler drops what create returns; the model keeps the creation time
\* in the handler's `session`, as a record of which session it created.
TextReplace(h, chatId, userId, url, existingSession) ==
    LET m == IF existingSession THEN delete(sessions, chatId) ELSE sessions
        created == create(m, chatId, [url |-> url, userId |-> userId], clock)
    IN  IF url = Undef
        THEN /\ sessions' = m
             /\ Suspends(h, "text", "invalidReply", chatId, userId, [url |-> url])
             /\ UNCHANGED clock
        ELSE /\ sessions' = created
             /\ clock' = clock + 1
             /\ Suspends(h, "text", "reply", chatId, userId,
                         [url |-> url,
                          session |-> Captured(created[chatId], {"createdAt"})])

\* bot.on("text"), up to its first await.  url is sanitizeUrl(text).
TextEntry(chatId, userId, url) ==
    LET existingSession == get(sessions, chatId)
    IN  IF ~isAuthorized(userId) \/ (~existingSession.present /\ url = Undef)
        THEN LeavesNoTrace
        ELSE \E h \in UpdateIds :
                /\ Arrives(h)
                /\ UNCHANGED queueVars
                /\ IF /\ existingSession.present
                      /\ \/ existingSession.formatMessageId > 0
                         \/ existingSession.selectionMessageId > 0
                   THEN /\ Suspends(h, "text", "deleteMessage", chatId, userId,
                                    [url |-> url])
                        /\ UNCHANGED <<sessions, clock>>
                   ELSE TextReplace(h, chatId, userId, url, existingSession.present)

\* The old prompts are deleted (a failure is swallowed).
TextAfterDelete(h) ==
    /\ Resumes(h, "text", "deleteMessage")
    /\ TextReplace(h, handlers[h].chat, handlers[h].user, handlers[h].url, TRUE)
    /\ UNCHANGED <<queueVars, nextUpdate>>

\* The kind prompt is sent: lines 155-158.  Its message id is h.
TextAfterReply(h) ==
    /\ Resumes(h, "text", "reply")
    /\ sessions' = update(sessions, handlers[h].chat,
                          [selectionMessageId |-> MessageId.selection,
                           formatMessageId |-> MsgNull])
    /\ Returns(h)
    /\ UNCHANGED <<queueVars, nextUpdate, clock>>

\* bot.command("cancel")
CancelCommand(chatId, userId) ==
    IF ~isAuthorized(userId) \/ delete(sessions, chatId) = sessions
    THEN LeavesNoTrace
    ELSE \E h \in UpdateIds :
            /\ Arrives(h)
            /\ sessions' = delete(sessions, chatId)
            /\ Suspends(h, "cancelCommand", "reply", chatId, userId, << >>)
            /\ UNCHANGED <<queueVars, clock>>

\* bot.action("cancel")
CancelAction(chatId, userId) ==
    IF delete(sessions, chatId) = sessions
    THEN LeavesNoTrace
    ELSE \E h \in UpdateIds :
            /\ Arrives(h)
            /\ sessions' = delete(sessions, chatId)
            /\ Suspends(h, "cancelAction", "answerCbQuery", chatId, userId, << >>)
            /\ UNCHANGED <<queueVars, clock>>

\* bot.action(/^type:(audio|video)$/i), up to its first await.
TypeEntry(chatId, userId, type) ==
    LET session == get(sessions, chatId)
    IN  IF ~isAuthorized(userId) \/ ~session.present \/ session.userId # userId
        THEN LeavesNoTrace
        ELSE \E h \in UpdateIds :
                /\ Arrives(h)
                /\ UNCHANGED <<queueVars, sessions, clock>>
                /\ Suspends(h, "type", "answerCbQuery", chatId, userId,
                            [session |-> Captured(session, {"url"}), type |-> type])

\* The callback is answered and the kind prompt deleted: line 183.
TypeAfterAnswer(h) ==
    /\ Resumes(h, "type", "answerCbQuery")
    /\ sessions' = update(sessions, handlers[h].chat, [selectionMessageId |-> MsgNull])
    /\ MovesTo(h, "listFormats")
    /\ UNCHANGED <<queueVars, nextUpdate, clock>>

\* listFormats(session.url) and getFormatsByType have returned: lines 189-221.
TypeAfterProbe(h, result) ==
    /\ Resumes(h, "type", "listFormats")
    /\ LET session == handlers[h].session
           filtered == Candidates(session.url, handlers[h].type)
       IN  sessions' =
             IF result = "formats"
             THEN update(sessions, handlers[h].chat,
                         [type |-> handlers[h].type,
                          title |-> TitleOf(session.url),
                          webpageUrl |-> session.url,
                          durationSeconds |-> DurationOf(session.url),
                          formats |-> filtered,
                          formatMessageId |-> MessageId.format,
                          selectionMessageId |-> MsgNull])
             ELSE sessions
    /\ Returns(h)
    /\ UNCHANGED <<queueVars, nextUpdate, clock>>

\* A variant of selectedFormat that takes the last candidate for an index
\* past the end of the list.
selectedFormat_Clamped(session, index) ==
    IF session.formats = <<>> THEN {}
    ELSE IF index + 1 \in DOMAIN session.formats THEN {session.formats[index + 1]}
    ELSE {session.formats[Len(session.formats)]}

\* session.formats?.[index]
selectedFormat(session, index) ==
    IF index + 1 \in DOMAIN session.formats THEN {session.formats[index + 1]} ELSE {}

\* bot.action(/^fmt:(audio|video):(\d+)$/i), up to its first await.
FmtEntry(chatId, userId, type, index) ==
    LET session == get(sessions, chatId)
    IN  IF \/ ~isAuthorized(userId)
           \/ ~session.present
           \/ session.userId # userId
           \/ selectedFormat(session, index) = {}
        THEN LeavesNoTrace
        ELSE \E h \in UpdateIds :
                /\ Arrives(h)
                /\ UNCHANGED <<queueVars, sessions, clock>>
                /\ Suspends(h, "fmt", "answerCbQuery", chatId, userId,
                            [session |-> Captured(session, {"url", "title", "formats",
                                                            "formatMessageId"}),
                             index |-> index])

\* A variant of the size check that lets every candidate through.
estimatedSizeTooLarge_Never(format) == FALSE

\* estimatedSize && estimatedSize > TELEGRAM_FILE_LIMIT_BYTES: lines 258-259.
estimatedSizeTooLarge(format) ==
    format.estimatedSizeBytes # 0 /\ format.estimatedSizeBytes > MAX_FILE_SIZE_BYTES

\* The callback is answered and the format prompt deleted: lines 251-272.
FmtAfterAnswer(h) ==
    /\ Resumes(h, "fmt", "answerCbQuery")
    /\ LET session == handlers[h].session
           chatId == handlers[h].chat
           format == CHOOSE f \in selectedFormat(session, handlers[h].index) : TRUE
           m == IF session.formatMessageId > 0
                THEN update(sessions, chatId, [formatMessageId |-> MsgNull])
                ELSE sessions
       IN  /\ sessions' = update(m, chatId, [title |-> session.title])
           /\ IF estimatedSizeTooLarge(format)
              THEN MovesTo(h, "retryReply")
              ELSE MovesTo(h, "queuedReply")
    /\ UNCHANGED <<queueVars, nextUpdate, clock>>

\* The smaller-choice prompt is sent: line 267.
FmtAfterRetryReply(h) ==
    /\ Resumes(h, "fmt", "retryReply")
    /\ sessions' = update(sessions, handlers[h].chat,
                          [formatMessageId |-> MessageId.retry])
    /\ Returns(h)
    /\ UNCHANGED <<queueVars, nextUpdate, clock>>

\* The status message is sent: queue.enqueue(task), job.promise.then(...).
FmtEnqueue(h) ==
    /\ Resumes(h, "fmt", "queuedReply")
    /\ nextJob < MaxJobs
    /\ LET j == nextJob + 1
           w == enqueue(World, j)
       IN  /\ nextJob' = j
           /\ Become([w EXCEPT !.jobs[j].chat = handlers[h].chat,
                               !.jobs[j].then = "attached"])
    /\ Returns(h)
    /\ UNCHANGED <<sessions, nextUpdate, clock>>

\* The last reply of a handler is sent, or fails: nothing follows it.
HandlerReturns(h) ==
    /\ \/ Resumes(h, "text", "invalidReply")
       \/ Resumes(h, "cancelCommand", "reply")
       \/ Resumes(h, "cancelAction", "answerCbQuery")
    /\ Returns(h)
    /\ UNCHANGED <<queueVars, sessions, nextUpdate, clock>>

\* An awaited Telegram call that nothing catches rejects: the handler ends.
HandlerThrows(h) ==
    /\ \/ Resumes(h, "text", "reply")
       \/ Resumes(h, "type", "answerCbQuery")
       \/ Resumes(h, "type", "listFormats")
       \/ Resumes(h, "fmt", "answerCbQuery")
       \/ Resumes(h, "fmt", "retryReply")
       \/ Resumes(h, "fmt", "queuedReply")
    /\ Returns(h)
    /\ UNCHANGED <<queueVars, sessions, nextUpdate, clock>>

\* What the job's task (the download and the upload) can end with.
DownloadOutcomes ==
    { [ok |-> TRUE, val |-> "success"],
      [ok |-> TRUE, val |-> "file-too-large"],
      [ok |-> TRUE, val |-> "telegram-file-too-large"],
      [ok |-> FALSE, val |-> "error"] }

\* A variant of keepSession that knows the size limit only.
keepSession_OnlySizeLimit(result) == result.val = "file-too-large"

\* result?.success and result?.keepSession of what the task returned.
success(result) == result.val = "success"
keepSession(result) == result.val \in {"file-too-large", "telegram-file-too-large"}

\* job.promise.then(...).catch(...), up to its first await: lines 369-395.
JobThen(j) ==
    /\ jobs[j].then = "attached"
    /\ jobs[j].promise # Pending
    /\ LET chatId == jobs[j].chat
           currentSession == get(sessions, chatId)
       IN  IF jobs[j].promise.state = "rejected"
           THEN /\ jobs' = [jobs EXCEPT ![j].then = "done"]
                /\ UNCHANGED sessions
           ELSE IF success(jobs[j].promise)
           THEN /\ sessions' = delete(sessions, chatId)
                /\ jobs' = [jobs EXCEPT ![j].then = "done"]
           ELSE IF keepSession(jobs[j].promise)
           THEN IF currentSession.present /\ Len(currentSession.formats) > 0
                THEN /\ jobs' = [jobs EXCEPT ![j].then = "reply"]
                     /\ UNCHANGED sessions
                ELSE /\ jobs' = [jobs EXCEPT ![j].then = "done"]
                     /\ UNCHANGED sessions
           ELSE /\ sessions' = delete(sessions, chatId)
                /\ jobs' = [jobs EXCEPT ![j].then = "done"]
    /\ UNCHANGED <<dq, starting, nextJob, handlers, nextUpdate, clock>>

\* The retry prompt is sent: line 385.
JobThenAfterReply(j) ==
    /\ jobs[j].then = "reply"
    /\ sessions' = update(sessions, jobs[j].chat, [formatMessageId |-> MessageId.another])
    /\ jobs' = [jobs EXCEPT ![j].then = "done"]
    /\ UNCHANGED <<dq, starting, nextJob, handlers, nextUpdate, clock>>

\* The retry prompt is rejected: the .catch runs.
JobThenThrows(j) ==
    /\ jobs[j].then = "reply"
    /\ jobs' = [jobs EXCEPT ![j].then = "done"]
    /\ UNCHANGED <<dq, starting, nextJob, sessions, handlers, nextUpdate, clock>>

BotIdle ==
    /\ sessions = [c \in Chats |-> NoSession]
    /\ handlers = [h \in UpdateIds |-> NewHandler]
    /\ nextUpdate = 0
    /\ clock = 1

Init ==
    /\ dq = DownloadQueueNew(MAX_CONCURRENT_DOWNLOADS)
    /\ jobs = [j \in JobIds |-> NoJob]
    /\ starting = <<>>
    /\ nextJob = 0
    /\ BotIdle

Next ==
    \/ \E c \in Chats, u \in Users, url \in Urls \cup {Undef} : TextEntry(c, u, url)
    \/ \E h \in UpdateIds : TextAfterDelete(h)
    \/ \E h \in UpdateIds : TextAfterReply(h)
    \/ \E c \in Chats, u \in Users : CancelCommand(c, u)
    \/ \E c \in Chats, u \in Users : CancelAction(c, u)
    \/ \E c \in Chats, u \in Users, t \in KindsChosen : TypeEntry(c, u, t)
    \/ \E h \in UpdateIds : TypeAfterAnswer(h)
    \/ \E h \in UpdateIds, r \in ProbeResults : TypeAfterProbe(h, r)
    \/ \E c \in Chats, u \in Users, t \in KindsChosen, i \in 0..2 : FmtEntry(c, u, t, i)
    \/ \E h \in UpdateIds : FmtAfterAnswer(h)
    \/ \E h \in UpdateIds : FmtAfterRetryReply(h)
    \/ \E h \in UpdateIds : FmtEnqueue(h)
    \/ \E h \in UpdateIds : HandlerReturns(h)
    \/ \E h \in UpdateIds : HandlerThrows(h)
    \/ TaskStart
    \/ \E j \in JobIds, o \in DownloadOutcomes : TaskEnd(j, o)
    \/ \E j \in JobIds : JobSettle(j)
    \/ \E j \in JobIds : JobFinally(j)
    \/ \E j \in JobIds : JobThen(j)
    \/ \E j \in JobIds : JobThenAfterReply(j)
    \/ \E j \in JobIds : JobThenThrows(j)

Spec == Init /\ [][Next]_vars

----------------------------------------------------------------------------
(* The queue alone, under an arbitrary client *)

QInit ==
    /\ dq \in {DownloadQueueNew(c) : c \in 0..MaxConcurrency}
    /\ jobs = [j \in JobIds |-> NoJob]
    /\ starting = <<>>
    /\ nextJob = 0
    /\ BotIdle

QNext ==
    \/ Enqueue
    \/ TaskStart
    \/ \E j \in JobIds, o \in Outcomes : TaskEnd(j, o)
    \/ \E j \in JobIds : JobSettle(j)
    \/ \E j \in JobIds : JobFinally(j)

QueueSpec == QInit /\ [][QNext]_vars

\* Which value a task carries does not matter to progress: one of each kind.
QFairNext ==
    \/ Enqueue
    \/ TaskStart
    \/ \E j \in JobIds : TaskEnd(j, [ok |-> TRUE, val |-> "v1"])
    \/ \E j \in JobIds : TaskEnd(j, [ok |-> FALSE, val |-> "e1"])
    \/ \E j \in JobIds : JobSettle(j)
    \/ \E j \in JobIds : JobFinally(j)

QFairness ==
    /\ WF_vars(TaskStart)
    /\ \A j \in JobIds : WF_vars(\E o \in Outcomes : TaskEnd(j, o))
    /\ \A j \in JobIds : WF_vars(JobSettle(j))
    /\ \A j \in JobIds : WF_vars(JobFinally(j))

\* The event loop runs every queued microtask; that every started task ends
\* is the assumption of the liveness claim.
QueueFairSpec == QInit /\ [][QFairNext]_vars /\ QFairness


----------------------------------------------------------------------------
(* The task of a job: index.js lines 275-362, and downloadMedia *)

RunIds == 1..MaxRuns

\* What downloadMedia meets: mkdir fails; yt-dlp exits non-zero; no output
\* file is found; move or stat fails; or a file of some size is produced.
DownloadResults ==
    {"ensureDir-fails", "runYtDlp-fails", "file-not-found", "stat-fails", "small", "large"}
DownloadedSize == [small |-> 1000000, large |-> 60000000]

\* What sendAudio / sendDocument / sendVideo ends with: no error, or an error
\* with its error_code (0: none) and description.
NoError == [code |-> 0, description |-> ""]
UploadErrors ==
    { [code |-> 413, description |-> "Payload Too Large"],
      [code |-> 400, description |-> "Bad Request: Request Entity Too Large"],
      [code |-> 0, description |-> "request entity too large"],
      [code |-> 400, description |-> "Bad Request: chat not found"],
      [code |-> 0, description |-> "socket hang up"] }
UploadResults == {NoError} \cup UploadErrors

\* string.toLowerCase(), on the strings of the model
toLowerCase(description) ==
    CASE description = "Payload Too Large" -> "payload too large"
      [] description = "Bad Request: Request Entity Too Large" ->
             "bad request: request entity too large"
      [] description = "Bad Request: chat not found" -> "bad request: chat not found"
      [] description = "ID" -> "id"
      [] description = "WEBM" -> "webm"
      [] description = "English" -> "english"
      [] OTHER -> description

\* lower.includes("request entity too large")
includesEntityTooLarge(lower) ==
    lower \in {"request entity too large", "bad request: request entity too large"}

isTelegramEntityTooLarge(error) ==
    IF error = NoError THEN FALSE
    ELSE IF error.code = 413 THEN TRUE
    ELSE includesEntityTooLarge(toLowerCase(error.description))

\* A job whose task has not been called yet, with the position enqueue gave it.
NewRun(pos) ==
    [st |-> "running", out |-> NoOutcome, then |-> "none", position |-> pos,
     pc |-> "enqueued",
     dl |-> Undef,           \* what downloadMedia met
     up |-> NoError,         \* what the upload met
     dir |-> "none",         \* the working directory: none, exists, removed
     download |-> FALSE,     \* `download` is assigned
     cleanups |-> 0,         \* calls of download.cleanup()
     lost |-> 0,             \* status updates that were not delivered
     threw |-> FALSE,        \* an await of the current step has thrown
     result |-> NoOutcome]   \* what the task is about to return or throw

\* A variant of updateStatus without the try / catch.
updateStatus_Rethrows(run, delivered) ==
    IF delivered THEN run ELSE [run EXCEPT !.lost = @ + 1, !.threw = TRUE]

\* createStatusUpdater: editMessageText fails, the failure is logged.
updateStatus(run, delivered) ==
    IF delivered THEN run ELSE [run EXCEPT !.lost = @ + 1]

Error == [ok |-> FALSE, val |-> "error"]

\* An await throws inside the try block: the finally block is next.
throwsInTry(run) == [run EXCEPT !.pc = "finally", !.result = Error, !.threw = FALSE]

\* A variant of the finally block that is plain code after the try block:
\* it runs only when nothing was thrown.
taskFinally_OnReturnOnly(run, removed) ==
    LET cleaned == IF run.download /\ run.result.ok
                   THEN [run EXCEPT !.cleanups = @ + 1,
                                    !.dir = IF removed THEN "removed" ELSE @]
                   ELSE run
    IN  [cleaned EXCEPT !.pc = "ended", !.st = "finished", !.out = run.result]

\* finally { if (download) { try { await download.cleanup() } catch {} } }
taskFinally(run, removed) ==
    LET cleaned == IF run.download
                   THEN [run EXCEPT !.cleanups = @ + 1,
                                    !.dir = IF removed THEN "removed" ELSE @]
                   ELSE run
    IN  [cleaned EXCEPT !.pc = "ended", !.st = "finished", !.out = run.result]

\* downloadMedia, with its status call that is not awaited.
downloadMedia(run, d, delivered) ==
    LET told == [updateStatus(run, delivered) EXCEPT !.threw = FALSE]
        r == [run EXCEPT !.dl = d,
                         !.lost = IF d = "ensureDir-fails" THEN @ ELSE told.lost,
                         !.dir = IF d = "ensureDir-fails" THEN "none" ELSE "exists"]
    IN  IF d \in {"small", "large"}
        THEN [r EXCEPT !.download = TRUE, !.pc = "sizeCheck"]
        ELSE throwsInTry(r)

\* What the task ends with, from what the download and the upload met.
taskResult(d, u) ==
    IF d \notin {"small", "large"} THEN Error
    ELSE IF DownloadedSize[d] > MAX_FILE_SIZE_BYTES THEN [ok |-> TRUE, val |-> "file-too-large"]
    ELSE IF u = NoError THEN [ok |-> TRUE, val |-> "success"]
    ELSE IF isTelegramEntityTooLarge(u) THEN [ok |-> TRUE, val |-> "telegram-file-too-large"]
    ELSE Error

RunStep(j, run) ==
    /\ jobs' = [jobs EXCEPT ![j] = run]
    /\ UNCHANGED <<dq, starting, nextJob, botVars>>

\* The handler after queue.enqueue: the queued notice, then job.promise.then.
RunQueuedNotice(j, delivered) ==
    /\ jobs[j].then = "none"
    /\ LET told == IF jobs[j].position > 0
                   THEN updateStatus(jobs[j], delivered)
                   ELSE jobs[j]
       IN  RunStep(j, IF told.threw
                      THEN [told EXCEPT !.then = "never", !.threw = FALSE]
                      ELSE [told EXCEPT !.then = "attached"])

\* The task is called: 'Preparing download...', before the try block.  A job
\* that did not wait has its callback attached before its task is called.
RunPrepare(j, delivered) ==
    /\ jobs[j].pc = "enqueued"
    /\ jobs[j].position = 0 => jobs[j].then # "none"
    /\ LET told == updateStatus(jobs[j], delivered)
       IN  RunStep(j, IF told.threw
                      THEN [told EXCEPT !.pc = "ended", !.st = "finished",
                                        !.out = Error, !.threw = FALSE]
                      ELSE [told EXCEPT !.pc = "downloadMedia"])

RunDownload(j, d, delivered) ==
    /\ jobs[j].pc = "downloadMedia"
    /\ RunStep(j, downloadMedia(jobs[j], d, delivered))

\* download.size > TELEGRAM_FILE_LIMIT_BYTES, and the status that follows.
RunSizeCheck(j, delivered) ==
    /\ jobs[j].pc = "sizeCheck"
    /\ LET told == updateStatus(jobs[j], delivered)
       IN  RunStep(j, IF told.threw THEN throwsInTry(told)
                      ELSE IF DownloadedSize[jobs[j].dl] > MAX_FILE_SIZE_BYTES
                      THEN [told EXCEPT !.pc = "finally",
                                        !.result = [ok |-> TRUE, val |-> "file-too-large"]]
                      ELSE [told EXCEPT !.pc = "send"])

\* The upload, and its catch.
RunSend(j, u) ==
    /\ jobs[j].pc = "send"
    /\ LET sent == [jobs[j] EXCEPT !.up = u]
       IN  RunStep(j, IF u = NoError THEN [sent EXCEPT !.pc = "doneStatus"]
                      ELSE IF isTelegramEntityTooLarge(u)
                      THEN [sent EXCEPT !.pc = "rejectedStatus"]
                      ELSE throwsInTry(sent))

\* 'Done' or 'Telegram rejected the upload...', and the return that follows.
RunLastStatus(j, delivered) ==
    /\ jobs[j].pc \in {"doneStatus", "rejectedStatus"}
    /\ LET told == updateStatus(jobs[j], delivered)
           val == IF jobs[j].pc = "doneStatus" THEN "success" ELSE "telegram-file-too-large"
       IN  RunStep(j, IF told.threw THEN throwsInTry(told)
                      ELSE [told EXCEPT !.pc = "finally",
                                        !.result = [ok |-> TRUE, val |-> val]])

RunFinally(j, removed) ==
    /\ jobs[j].pc = "finally"
    /\ RunStep(j, taskFinally(jobs[j], removed))

\* The .catch of job.promise: 'Failed. Please try another format...'
RunFailedNotice(j, delivered) ==
    /\ jobs[j].pc = "ended"
    /\ jobs[j].then = "attached"
    /\ ~jobs[j].out.ok
    /\ RunStep(j, [updateStatus(jobs[j], delivered) EXCEPT !.then = "done", !.threw = FALSE])

TInit ==
    /\ dq = DownloadQueueNew(MAX_CONCURRENT_DOWNLOADS)
    /\ \E pos \in [RunIds -> {0, 1}] :
          jobs = [j \in JobIds |-> IF j \in RunIds THEN NewRun(pos[j]) ELSE NoJob]
    /\ starting = <<>>
    /\ nextJob = 0
    /\ BotIdle

TNext ==
    \/ \E j \in RunIds, delivered \in BOOLEAN : RunQueuedNotice(j, delivered)
    \/ \E j \in RunIds, delivered \in BOOLEAN : RunPrepare(j, delivered)
    \/ \E j \in RunIds, d \in DownloadResults, delivered \in BOOLEAN : RunDownload(j, d, delivered)
    \/ \E j \in RunIds, delivered \in BOOLEAN : RunSizeCheck(j, delivered)
    \/ \E j \in RunIds, u \in UploadResults : RunSend(j, u)
    \/ \E j \in RunIds, delivered \in BOOLEAN : RunLastStatus(j, delivered)
    \/ \E j \in RunIds, removed \in BOOLEAN : RunFinally(j, removed)
    \/ \E j \in RunIds, delivered \in BOOLEAN : RunFailedNotice(j, delivered)

TaskSpec == TInit /\ [][TNext]_vars

----------------------------------------------------------------------------
(* The probe and the format selector, downloader.js.  A text (a line of the
   listing, a resolution, a note) is the sequence of its words; the bar
   between the columns of the listing is a word of its own.  A number that
   is null or undefined in the code is 0 here, except filesize. *)

Bar == "|"

\* The words the model's texts are made of, and what the code's regular
\* expressions and substring tests find in each.
RuleWords == {"-----", "====="}
HeaderWords == {"id", "format"}
PassWords == {"pass", "bypass"}
AudWords == {"hls-aud"}
DefaultWords == {"default", "original,", "original"}
EnglishWords == {"english", "en", "en-us", "en-gb"}

\* /(\d{3,4})[pP]/ in a word: the number matched, 0 for no match.
heightP(word) == CASE word = "360p" -> 360
                   [] word = "720p" -> 720
                   [] OTHER -> 0

\* /\b(\d{3,4})x(\d{3,4})\b/ in a word: the second number, 0 for no match.
heightX(word) == CASE word = "640x360" -> 360
                   [] word = "1280x720" -> 720
                   [] word = "1920x1080" -> 1080
                   [] word = "320x240" -> 240
                   [] OTHER -> 0

\* /(\d{2,4})\s*(?:kbps|kb|k\b)/i in a word: the number, 0 for no match.
kbpsIn(word) == CASE word = "49k" -> 49
                  [] word = "80k" -> 80
                  [] word = "96k" -> 96
                  [] word = "129k" -> 129
                  [] word = "130k" -> 130
                  [] word = "190k" -> 190
                  [] word = "256k" -> 256
                  [] word = "320k" -> 320
                  [] OTHER -> 0

\* parseSizeFromNote on a word: the size in bytes, 0 for no match.
sizeIn(word) == CASE word = "2MiB" -> 2 * 1024 * 1024
                  [] word = "~40MiB" -> 40 * 1024 * 1024
                  [] OTHER -> 0

\* id.split("+")
splitPlus(id) == CASE id = "137+140" -> <<"137", "140">>
                   [] OTHER -> <<id>>

toLowerCaseText(text) == [i \in DOMAIN text |-> toLowerCase(text[i])]

\* text.includes(sub), for a sub made of whole words
includes(text, sub) ==
    \E i \in 0..(Len(text) - Len(sub)) : SubSeq(text, i + 1, i + Len(sub)) = sub

\* The first word of the text where `found` is not 0, as a regular
\* expression's first match; 0 if there is none.
firstMatch(text, found) ==
    LET hits == {i \in DOMAIN text : found[i] # 0}
    IN  IF hits = {} THEN 0
        ELSE found[CHOOSE i \in hits : \A k \in hits : i <= k]

\* trimmed.split("|").map((segment) => segment.trim())
RECURSIVE split(_)
split(text) ==
    IF \A i \in DOMAIN text : text[i] # Bar
    THEN <<text>>
    ELSE LET i == CHOOSE i \in DOMAIN text :
                      text[i] = Bar /\ \A k \in 1..(i - 1) : text[k] # Bar
         IN  <<SubSeq(text, 1, i - 1)>> \o split(SubSeq(text, i + 1, Len(text)))

\* segments.join(" | ")
RECURSIVE join(_)
join(segments) ==
    IF segments = <<>> THEN <<>>
    ELSE IF Len(segments) = 1 THEN Head(segments)
    ELSE Head(segments) \o <<Bar>> \o join(Tail(segments))

\* One turn of the loop of parseFormatList: the entries the line adds.
parseLine(line) ==
    LET trimmed == line
        segments == split(trimmed)
        left == Head(segments)
        parts == left
    IN  IF line = <<>> THEN <<>>
        ELSE IF \/ Len(trimmed) = 1 /\ trimmed[1] \in RuleWords
                \/ toLowerCase(trimmed[1]) \in HeaderWords
        THEN <<>>
        ELSE IF left = <<>> THEN <<>>
        ELSE IF Len(parts) < 2 THEN <<>>
        ELSE IF \E i \in DOMAIN trimmed : toLowerCase(trimmed[i]) \in PassWords THEN <<>>
        ELSE << [id |-> parts[1],
                 extension |-> parts[2],
                 resolution |-> SubSeq(parts, 3, Len(parts)),
                 note |-> join(SelectSeq(Tail(segments), LAMBDA segment : segment # <<>>))] >>

RECURSIVE parseFormatList(_)
parseFormatList(output) ==
    IF output = <<>> THEN <<>>
    ELSE parseLine(Head(output)) \o parseFormatList(Tail(output))

classifyFormat(entry) ==
    IF \/ includes(toLowerCaseText(entry.resolution), <<"audio", "only">>)
       \/ includes(toLowerCaseText(entry.note), <<"audio", "only">>)
       \/ toLowerCase(entry.id) \in AudWords
    THEN "audio"
    ELSE "video"

parseSizeFromNote(note) == firstMatch(note, [i \in DOMAIN note |-> sizeIn(note[i])])

\* A format of the JSON document; filesize is Null when the document has
\* none.  NoMeta stands for `null`, the entry formatMap has not.
Null == 0 - 1
NoMeta == [present |-> FALSE, format_id |-> "", abr |-> 0, tbr |-> 0,
           filesize |-> Null, filesize_approx |-> 0, height |-> 0]
Meta(id, abr, tbr, filesize, approx) ==
    [present |-> TRUE, format_id |-> id, abr |-> abr, tbr |-> tbr,
     filesize |-> filesize, filesize_approx |-> approx, height |-> 0]

\* formatMap.get(id), formatMap built from info.formats
formatMapGet(info, id) ==
    LET at == {i \in DOMAIN info.formats :
                  info.formats[i].format_id # "" /\ info.formats[i].format_id = id}
    IN  IF at = {} THEN NoMeta
        ELSE info.formats[CHOOSE i \in at : \A k \in at : k <= i]

RECURSIVE sumSizes(_, _)
sumSizes(info, parts) ==
    IF parts = <<>> THEN [total |-> 0, hasSize |-> FALSE]
    ELSE LET meta == formatMapGet(info, Head(parts))
             sizeCandidate == IF meta.filesize # Null THEN meta.filesize
                              ELSE meta.filesize_approx
             rest == sumSizes(info, Tail(parts))
         IN  IF meta.present /\ sizeCandidate # 0
             THEN [total |-> sizeCandidate + rest.total, hasSize |-> TRUE]
             ELSE rest

computeApproxSize(formatEntry, info) ==
    LET sum == sumSizes(info, splitPlus(formatEntry.id))
    IN  IF sum.hasSize THEN sum.total ELSE parseSizeFromNote(formatEntry.note)

parseResolutionHeight(value) ==
    LET p == firstMatch(value, [i \in DOMAIN value |-> heightP(value[i])])
    IN  IF p # 0 THEN p
        ELSE firstMatch(value, [i \in DOMAIN value |-> heightX(value[i])])

extractBitrateFromNote(note) == firstMatch(note, [i \in DOMAIN note |-> kbpsIn(note[i])])

Abs(n) == IF n < 0 THEN 0 - n ELSE n

presets == <<64, 96, 128, 160, 192, 224, 256, 320>>

\* presets.reduce(...) from index i on, `previous` being the value so far
RECURSIVE reducePresets(_, _, _)
reducePresets(previous, i, kbps) ==
    IF i > Len(presets) THEN previous
    ELSE reducePresets(IF Abs(presets[i] - kbps) < Abs(previous - kbps)
                       THEN presets[i] ELSE previous,
                       i + 1, kbps)

nearestAudioBitrate(kbps) ==
    IF kbps = 0 THEN 0 ELSE reducePresets(presets[1], 2, kbps)

estimateAudioSize(durationSeconds, bitrateKbps) ==
    IF durationSeconds = 0 \/ bitrateKbps = 0 THEN 0
    ELSE (durationSeconds * bitrateKbps * 1000) \div 8

determineAudioBitrateKbps(format) ==
    LET raw == IF format.meta.abr # 0 THEN format.meta.abr
               ELSE IF format.meta.tbr # 0 THEN format.meta.tbr
               ELSE extractBitrateFromNote(format.note)
    IN  IF raw = 0 THEN 0 ELSE nearestAudioBitrate(raw)

\* The label's text is made of these two values.
createAudioLabel(bitrateKbps, sizeBytes) ==
    [bitrateKbps |-> bitrateKbps, sizeBytes |-> sizeBytes]
createVideoLabel(height, sizeBytes) ==
    [height |-> height, sizeBytes |-> sizeBytes]

Min(a, b) == IF a < b THEN a ELSE b

\* The score, in units of 1/(5 * 1024 * 1024) for audio and of 1/200 for
\* video, which keeps it an integer.
preferenceScore(format, type) ==
    LET note == toLowerCaseText(format.note)
        unit == IF type = "audio" THEN 5 * 1024 * 1024 ELSE 200
        named == IF \E i \in DOMAIN note : note[i] \in DefaultWords THEN 10 ELSE 0
        english == IF \E i \in DOMAIN note : note[i] \in EnglishWords THEN 5 ELSE 0
    IN  (named + english) * unit
          + IF type = "audio"
            THEN Min(format.approxSize, 5 * unit)
            ELSE Min(parseResolutionHeight(format.resolution), 5 * unit)

allowedExtensions(type) ==
    IF type = "audio" THEN {"m4a", "mp3", "webm", "opus", "mp4", "ogg"}
    ELSE {"mp4", "webm", "mkv"}

\* The test of formats.filter(...)
wellKnown(fmt, type) ==
    /\ fmt.type = type
    /\ toLowerCase(fmt.extension) \in allowedExtensions(type)
    /\ type = "video" =>
          ~(/\ includes(toLowerCaseText(fmt.note), <<"video", "only">>)
            /\ Len(splitPlus(fmt.id)) = 1)

\* What the comparator of filtered.sort orders by, highest first.
sortRank(fmt, type) ==
    IF type = "audio"
    THEN IF fmt.meta.abr # 0 THEN fmt.meta.abr
         ELSE IF fmt.meta.tbr # 0 THEN fmt.meta.tbr
         ELSE fmt.approxSize
    ELSE parseResolutionHeight(fmt.resolution)

\* filtered.sort(...): a stable sort, highest rank first
RECURSIVE sort(_, _)
sort(seq, type) ==
    IF seq = <<>> THEN <<>>
    ELSE LET n == Len(seq)
             sorted == sort(SubSeq(seq, 1, n - 1), type)
             k == Cardinality({i \in DOMAIN sorted :
                                  sortRank(sorted[i], type) >= sortRank(seq[n], type)})
         IN  SubSeq(sorted, 1, k) \o <<seq[n]>> \o SubSeq(sorted, k + 1, n - 1)

\* The key of the dedup loop: a string for audio, the resolution or else
\* the id for video.
dedupKey(fmt, type) ==
    LET bitrateKey == determineAudioBitrateKbps(fmt)
    IN  IF type = "audio"
        THEN <<"audio-" \o (IF bitrateKey # 0 THEN ToString(bitrateKey) ELSE fmt.id)>>
        ELSE IF fmt.resolution # <<>> THEN fmt.resolution ELSE <<fmt.id>>

\* The loop `for (const fmt of filtered)`, from `deduped` on
RECURSIVE dedup(_, _, _)
dedup(filtered, type, deduped) ==
    IF filtered = <<>> THEN deduped
    ELSE LET fmt == Head(filtered)
             at == {i \in DOMAIN deduped : dedupKey(deduped[i], type) = dedupKey(fmt, type)}
         IN  IF at = {}
             THEN dedup(Tail(filtered), type, Append(deduped, fmt))
             ELSE LET idxExisting == CHOOSE i \in at : TRUE
                      existing == deduped[idxExisting]
                      candidateScore == preferenceScore(fmt, type)
                      existingScore == preferenceScore(existing, type)
                  IN  IF \/ candidateScore > existingScore
                         \/ /\ candidateScore = existingScore
                            /\ fmt.approxSize > existing.approxSize
                      THEN dedup(Tail(filtered), type, [deduped EXCEPT ![idxExisting] = fmt])
                      ELSE dedup(Tail(filtered), type, deduped)

\* A variant of slice that keeps the whole array.
slice_All(array, end) == array

\* array.slice(0, end)
slice(array, end) == SubSeq(array, 1, Min(end, Len(array)))

\* The callback of deduped.slice(0, 6).map(...)
offered(fmt, type, durationSeconds) ==
    IF type = "audio"
    THEN LET derived == determineAudioBitrateKbps(fmt)
             bitrateKbps == IF derived # 0 THEN derived ELSE 192
             estimated == estimateAudioSize(durationSeconds, bitrateKbps)
             estimatedSize == IF estimated # 0 THEN estimated ELSE fmt.approxSize
         IN  fmt @@ [estimatedSizeBytes |-> estimatedSize,
                     displayLabel |-> createAudioLabel(bitrateKbps, estimatedSize),
                     targetFileName |-> fmt.id \o "-audio"]
    ELSE LET parsed == parseResolutionHeight(fmt.resolution)
             height == IF parsed # 0 THEN parsed ELSE fmt.meta.height
         IN  fmt @@ [estimatedSizeBytes |-> fmt.approxSize,
                     displayLabel |-> createVideoLabel(height, fmt.approxSize),
                     targetFileName |-> fmt.id \o "-video"]

filterWellKnownFormats(formats, type, durationSeconds) ==
    LET filtered == SelectSeq(formats, LAMBDA fmt : wellKnown(fmt, type))
        deduped == dedup(sort(filtered, type), type, <<>>)
        kept == slice(deduped, 6)
    IN  [i \in DOMAIN kept |-> offered(kept[i], type, durationSeconds)]

getFormatsByType(formats, type, durationSeconds) ==
    filterWellKnownFormats(formats, type, durationSeconds)

\* What yt-dlp --dump-json prints: nothing, a line that is no JSON, the
\* JSON value null, or the metadata document of the media.
InfoOutputs == {"", "<html>", "null", "{...}"}

Doc ==
    [isNull |-> FALSE, title |-> "title", webpage_url |-> "urlA", duration |-> 200,
     formats |-> << Meta("139", 49, 49, 1200000, 0),
                    Meta("140", 129, 129, 3200000, 0),
                    Meta("251", 130, 130, Null, 3300000),
                    Meta("18", 0, 500, 9000000, 0),
                    Meta("22", 0, 1500, Null, 0),
                    Meta("137", 0, 4000, 60000000, 0),
                    Meta("", 0, 0, Null, 0) >>]
JsonNull == [Doc EXCEPT !.isNull = TRUE, !.title = Undef, !.webpage_url = Undef,
                        !.duration = 0, !.formats = <<>>]

\* What an async function ends with.
Throws(message) ==
    [threw |-> TRUE, error |-> message, title |-> Undef, webpageUrl |-> Undef,
     durationSeconds |-> 0, formats |-> <<>>]
Resolves(title, webpageUrl, durationSeconds, formats) ==
    [threw |-> FALSE, error |-> "", title |-> title, webpageUrl |-> webpageUrl,
     durationSeconds |-> durationSeconds, formats |-> formats]
NoResult == Resolves(Undef, Undef, 0, <<>>)

\* fetchInfo, given the stdout of yt-dlp: the parsed line, or `threw`
fetchInfo(stdout) ==
    IF stdout = ""
    THEN [threw |-> TRUE, error |-> "Unable to parse yt-dlp metadata output", info |-> JsonNull]
    ELSE IF stdout = "{...}" THEN [threw |-> FALSE, error |-> "", info |-> Doc]
    ELSE IF stdout = "null" THEN [threw |-> FALSE, error |-> "", info |-> JsonNull]
    ELSE [threw |-> TRUE, error |-> "SyntaxError", info |-> JsonNull]

\* listFormats, given what the two yt-dlp runs do: the exit code and the
\* stdout of --list-formats, and the stdout of --dump-json.
listFormats(code, listOutput, infoOutput) ==
    LET fetched == fetchInfo(infoOutput)
        info == fetched.info
        parsed == parseFormatList(listOutput)
        formats == [i \in DOMAIN parsed |->
                       parsed[i] @@
                       [approxSize |-> computeApproxSize(parsed[i], info),
                        type |-> classifyFormat(parsed[i]),
                        meta |-> formatMapGet(info, parsed[i].id)]]
    IN  IF code # 0 THEN Throws("yt-dlp exited with code 1")
        ELSE IF fetched.threw THEN Throws(fetched.error)
        ELSE IF info.isNull THEN Throws("TypeError")
        ELSE Resolves(info.title, info.webpage_url, info.duration, formats)

\* The lines of a listing.
HeaderLine == <<"ID", "EXT", "RESOLUTION", Bar, "FILESIZE", Bar, "MORE", "INFO">>
RuleLine == <<"-----">>
BlankLine == <<>>
OneWordLine == <<"[info]">>
PassLine == <<"sb0", "mhtml", "48x27", Bar, "bypass">>
OrphanLine == <<Bar, "storyboard">>

AudioLines ==
    << <<"139", "m4a", "audio", "only", Bar, "49k">>,
       <<"140", "m4a", "audio", "only", Bar, "129k", "English">>,
       <<"251", "webm", "audio", "only", Bar, "~40MiB", Bar, "130k", "original,", "default">>,
       <<"a1", "mp3", "audio", "only">>,
       <<"a2", "ogg", "audio", "only", Bar, "2MiB">>,
       <<"171", "webm", "audio", "only", Bar, "190k">>,
       <<"172", "webm", "audio", "only", Bar, "256k">>,
       <<"141", "m4a", "audio", "only", Bar, "320k">> >>
VideoLines ==
    << <<"18", "mp4", "640x360", Bar, "360p">>,
       <<"22", "mp4", "1280x720", Bar, "720p", "default">>,
       <<"247", "webm", "1280x720", Bar, "video", "only">>,
       <<"137+140", "mp4", "1920x1080", Bar, "video", "only">> >>

\* The lines the listings of ProbeSpec are made of.
Lines ==
    { HeaderLine, RuleLine, BlankLine, OneWordLine, PassLine, OrphanLine,
      AudioLines[2], AudioLines[4], VideoLines[4],
      <<"hls-aud", "mp4", Bar, "96k">>,
      <<"5", "flv", "320x240">>,
      <<"43", "WEBM", "640x360", Bar, "English">> }

\* The formats listFormats returns for the whole listing.
Catalogue == listFormats(0, AudioLines \o VideoLines, "{...}").formats

MaxLines == 3
MaxListed == 9

RECURSIVE Listings(_)
Listings(n) ==
    IF n = 0 THEN {<<>>}
    ELSE Listings(n - 1) \cup {Append(l, x) : l \in Listings(n - 1), x \in Lines}

\* The elements of seq at the places of `at`, in order.
RECURSIVE pick(_, _)
pick(seq, at) ==
    IF at = {} THEN <<>>
    ELSE LET i == CHOOSE i \in at : \A k \in at : i <= k
         IN  <<seq[i]>> \o pick(seq, at \ {i})

ProbeIds == {1}

\* The kind handler's call of listFormats and getFormatsByType, lines
\* 189-190 of index.js: its locals.
ProbeCall(type, code, listOutput, infoOutput) ==
    [pc |-> "listFormats", type |-> type, code |-> code, listOutput |-> listOutput,
     infoOutput |-> infoOutput, result |-> NoResult, filtered |-> <<>>]

\* await listFormats(session.url)
ProbeListFormats(h) ==
    /\ handlers[h].pc = "listFormats"
    /\ LET result == listFormats(handlers[h].code, handlers[h].listOutput,
                                 handlers[h].infoOutput)
       IN  handlers' = [handlers EXCEPT ![h].result = result,
                                        ![h].pc = IF result.threw THEN "error" ELSE "probed"]
    /\ UNCHANGED <<queueVars, sessions, nextUpdate, clock>>

\* getFormatsByType(formats, type, { durationSeconds }) and the test of
\* filtered.length
ProbeGetFormatsByType(h) ==
    /\ handlers[h].pc = "probed"
    /\ LET filtered == getFormatsByType(handlers[h].result.formats, handlers[h].type,
                                        handlers[h].result.durationSeconds)
       IN  handlers' = [handlers EXCEPT ![h].filtered = filtered,
                                        ![h].pc = IF filtered = <<>> THEN "empty" ELSE "formats"]
    /\ UNCHANGED <<queueVars, sessions, nextUpdate, clock>>

ProbeIdle ==
    /\ dq = DownloadQueueNew(MAX_CONCURRENT_DOWNLOADS)
    /\ jobs = [j \in JobIds |-> NoJob]
    /\ starting = <<>>
    /\ nextJob = 0
    /\ sessions = [c \in Chats |-> NoSession]
    /\ nextUpdate = 0
    /\ clock = 1

\* The probe of any listing of up to MaxLines lines.
PInit ==
    /\ ProbeIdle
    /\ \E type \in Types, code \in {0, 1}, listOutput \in Listings(MaxLines),
          infoOutput \in InfoOutputs :
          /\ code = 1 => infoOutput = "{...}"
          /\ handlers = [h \in ProbeIds |-> ProbeCall(type, code, listOutput, infoOutput)]

PNext ==
    \/ \E h \in ProbeIds : ProbeListFormats(h)
    \/ \E h \in ProbeIds : ProbeGetFormatsByType(h)

ProbeSpec == PInit /\ [][PNext]_vars

\* The selector on any list of up to MaxListed formats of the catalogue.
SInit ==
    /\ ProbeIdle
    /\ \E type \in Types, at \in SUBSET DOMAIN Catalogue, backwards \in BOOLEAN,
          durationSeconds \in {0, 200} :
          /\ Cardinality(at) <= MaxListed
          /\ LET listed == pick(Catalogue, at)
                 formats == IF backwards
                            THEN [i \in DOMAIN listed |-> listed[Len(listed) + 1 - i]]
                            ELSE listed
                 call == ProbeCall(type, 0, <<>>, "{...}")
             IN  handlers = [h \in ProbeIds |->
                               [call EXCEPT !.pc = "probed",
                                            !.result = Resolves("title", "urlA",
                                                                durationSeconds, formats)]]

SelectorSpec == SInit /\ [][\E h \in ProbeIds : ProbeGetFormatsByType(h)]_vars

----------------------------------------------------------------------------
(* Properties of the Job Queue *)

\* Jobs that #runJob has started and whose slot is not yet released.
ActiveJobs == {j \in JobIds : jobs[j].st \in {"scheduled", "running", "finished", "settled"}}
\* Jobs whose task has been called.
Invoked == {j \in JobIds : jobs[j].st \in {"running", "finished", "settled", "released"}}
Released == {j \in JobIds : jobs[j].st = "released"}
EverQueued == {j \in JobIds : jobs[j].st # "idle" /\ jobs[j].queued}

\* C1: the number of tasks started and not yet completed never exceeds the
\* concurrency bound C, and C >= 1.
C1_BoundedConcurrency ==
    /\ dq.concurrency >= 1
    /\ Cardinality(ActiveJobs) <= dq.concurrency

C1_Witness ==
    /\ dq.concurrency = 2
    /\ Cardinality(ActiveJobs) = 2
    /\ dq.queue # <<>>
    /\ Released # {}

\* C2: enqueue starts the task at once (position 0, not queued) when fewer
\* than C tasks are active, and otherwise appends it to the wait list and
\* reports its 1-based position there; of C+1 tasks given to an idle queue
\* the first C start with position 0, the last waits with position 1 and is
\* started when the first slot is released.
C2_EnqueueStep ==
    nextJob' = nextJob + 1 =>
        LET j == nextJob'
        IN  IF Cardinality(ActiveJobs) < dq.concurrency
            THEN /\ jobs'[j].position = 0
                 /\ jobs'[j].queued = FALSE
                 /\ j \in ActiveJobs'
                 /\ dq'.queue = dq.queue
            ELSE /\ jobs'[j].queued = TRUE
                 /\ jobs'[j].st = "waiting"
                 /\ dq'.queue = Append(dq.queue, j)
                 /\ jobs'[j].position = Len(dq'.queue)

C2_Scenario ==
    (nextJob > dq.concurrency /\ Released = {}) =>
        /\ \A j \in 1..dq.concurrency :
              jobs[j].position = 0 /\ jobs[j].queued = FALSE /\ j \in ActiveJobs
        /\ jobs[dq.concurrency + 1].position = 1
        /\ jobs[dq.concurrency + 1].queued = TRUE
        /\ jobs[dq.concurrency + 1].st = "waiting"

C2_FirstRelease ==
    (nextJob > dq.concurrency /\ Released = {} /\ Released' # {}) =>
        dq.concurrency + 1 \in ActiveJobs'

C2_Admission == [][C2_EnqueueStep /\ C2_Scenario' /\ C2_FirstRelease]_vars

C2_Witness ==
    /\ dq.concurrency = 2
    /\ jobs[3].position = 1
    /\ jobs[3].st = "running"
    /\ jobs[4].position = 1

\* C3: of two tasks that both waited, the one enqueued first is started first
\* (its slot taken first and its task called first).
C3_Fifo ==
    \A a, b \in EverQueued :
        a < b => /\ (b \in ActiveJobs \cup Released => a \in ActiveJobs \cup Released)
                 /\ (b \in Invoked => a \in Invoked)

C3_Witness ==
    \E a, b \in EverQueued : a < b /\ jobs[b].st = "running" /\ jobs[a].st = "running"

\* C4: when a task has ended, with a result or a failure, the release of its
\* slot takes the head of the wait list, if any, and starts it in the same
\* step; a released job holds no slot.
C4_ReleaseStep ==
    \A j \in JobIds :
        (jobs[j].st = "settled" /\ jobs'[j].st = "released") =>
            /\ ActiveJobs' \cap Released' = {}
            /\ dq'.activeCount = Cardinality(ActiveJobs')
            /\ IF dq.queue # <<>>
               THEN /\ dq'.queue = Tail(dq.queue)
                    /\ jobs'[Head(dq.queue)].st = "scheduled"
                    /\ dq'.activeCount = dq.activeCount
               ELSE /\ dq'.queue = <<>>
                    /\ dq'.activeCount = dq.activeCount - 1

C4_Release == [][C4_ReleaseStep]_vars

C4_Witness ==
    /\ dq.concurrency = 1
    /\ jobs[1].st = "released"
    /\ jobs[1].out.ok = FALSE
    /\ jobs[2].st = "running"

\* C5: the promise of a job settles once, after its task has ended, and with
\* that task's own outcome: resolved with its value, rejected with its error.
C5_Settled(j) ==
    jobs[j].promise # Pending =>
        /\ jobs[j].st \in {"settled", "released"}
        /\ jobs[j].promise.val = jobs[j].out.val
        /\ jobs[j].promise.state = (IF jobs[j].out.ok THEN "resolved" ELSE "rejected")

C5_Handle ==
    [][\A j \in JobIds :
          /\ C5_Settled(j)'
          /\ jobs[j].promise # Pending => jobs'[j].promise = jobs[j].promise
          /\ jobs[j].st \in {"idle", "waiting", "scheduled", "running"} =>
                 jobs'[j].promise = Pending]_vars

C5_Witness ==
    \E a, b \in JobIds :
        /\ a \in EverQueued /\ jobs[a].promise = [state |-> "rejected", val |-> "e1"]
        /\ b \notin EverQueued /\ jobs[b].promise = [state |-> "resolved", val |-> "v2"]

\* C6: if every started task ends, every task given to enqueue is started
\* and its promise settles.
C6_NoStarvation ==
    \A j \in JobIds :
        (jobs[j].st # "idle") ~> (j \in Invoked /\ jobs[j].promise # Pending)

C6_Witness ==
    \E j \in EverQueued : jobs[j].position = 2 /\ jobs[j].promise # Pending

----------------------------------------------------------------------------
(* Properties of the sessions *)

\* The steps that are the call of chooseKind, chooseFormat or cancel by
\* userId in chatId.
ChoiceOrCancel(chatId, userId) ==
    \/ \E t \in Types : TypeEntry(chatId, userId, t)
    \/ \E t \in Types, i \in 0..2 : FmtEntry(chatId, userId, t, i)
    \/ CancelCommand(chatId, userId)
    \/ CancelAction(chatId, userId)

\* C7: a chooseKind, chooseFormat or cancel by an identity that is not the
\* owner of the stored session leaves that session as it was.
C7_OwnerOnly ==
    [][\A c \in Chats, u \in Users :
          (sessions[c].present /\ sessions[c].userId # u /\ ChoiceOrCancel(c, u))
              => sessions'[c] = sessions[c]]_vars

\* C8: no entry point called by an identity off the allow-list changes a
\* stored session or the Job Queue.
C8_AllowList ==
    [][\A c \in Chats, u \in Users \ AUTHORIZED_USER_IDS :
          (\/ \E url \in Urls \cup {Undef} : TextEntry(c, u, url)
           \/ ChoiceOrCancel(c, u))
              => UNCHANGED <<sessions, dq, jobs, starting>>]_vars

\* The probe result and the candidates attached to session s, if any, are
\* those of its own URL.
OwnProbeOnly(s) ==
    /\ s.title \in {Undef, TitleOf(s.url)}
    /\ s.webpageUrl \in {Undef, s.url}
    /\ s.durationSeconds \in {Undef, DurationOf(s.url)}
    /\ \A i \in DOMAIN s.formats : s.formats[i].src = s.url

\* C9: once a URL submission has been handled, the session it created, if
\* no cancel or later submission has removed it meanwhile, has that URL and
\* that owner and carries no probe result or candidate list of a prior
\* session of the conversation.
C9_Replaced ==
    [][\A h \in UpdateIds :
          LET s == sessions[handlers[h].chat]
              t == sessions'[handlers[h].chat]
          IN  (/\ TextAfterReply(h)
               /\ s.present
               /\ s.createdAt = handlers[h].session.createdAt)
                  => /\ t.present
                     /\ t.url = handlers[h].url
                     /\ t.userId = handlers[h].user
                     /\ OwnProbeOnly(t)]_vars

\* C10: as long as a session is stored, and until a URL submission creates
\* the next one, its ownerIdentity stays what it was; a created session has
\* an owner.
C10_Step(c) ==
    LET s == sessions[c]
        t == sessions'[c]
        created == t.createdAt # 0 /\ t.createdAt # s.createdAt
    IN  /\ (s.present /\ t.present /\ ~created) => t.userId = s.userId
        /\ (t.present /\ created) => t.userId \in AUTHORIZED_USER_IDS

C10_OwnerKept == [][\A c \in Chats : C10_Step(c)]_vars

\* A session that went through the kind choice, the format choice and a
\* job's result, and was touched by updates all along.
C10_Witness ==
    \E c \in Chats :
        /\ sessions[c].present
        /\ sessions[c].userId = "bob"
        /\ sessions[c].formats # <<>>
        /\ sessions[c].formatMessageId = MessageId.another

----------------------------------------------------------------------------
(* Properties of the format choice and of the job's result *)

\* C11: a format choice by the owner whose index names no entry of the
\* candidate list attached to the stored session (past its end, or no list)
\* goes no further than its rejection: no handler proceeds, the session and
\* the Job Queue stay as they were.  (A step that changes any of them is no
\* such call.)
C11_BadIndexRejected ==
    [][\/ UNCHANGED <<sessions, handlers, queueVars>>
       \/ \A c \in Chats, t \in Types, i \in 0..2 :
             ~(/\ sessions[c].present
               /\ i + 1 \notin DOMAIN sessions[c].formats
               /\ FmtEntry(c, sessions[c].userId, t, i))]_vars

\* A session with two candidates attached, and one with none, while another
\* update can still arrive: index 2 is past the end of the first list.
C11_Witness ==
    /\ \E c \in Chats : sessions[c].present /\ Len(sessions[c].formats) = 2
    /\ \E c \in Chats : sessions[c].present /\ sessions[c].formats = << >>
    /\ nextUpdate < MaxUpdates
    /\ InFlight = {}

\* The format handlers whose chosen candidate is estimated over the limit.
OversizeChoice(h) ==
    /\ handlers[h].kind = "fmt"
    /\ \E f \in selectedFormat(handlers[h].session, handlers[h].index) :
          f.estimatedSizeBytes > MAX_FILE_SIZE_BYTES

\* C12: a format handler whose candidate is estimated over the configured
\* maximum never enqueues a job; each of its steps leaves the stored session
\* with the same URL, owner and candidate list, and its last step leaves the
\* retry prompt open on it.
C12_Step(h) ==
    LET s == sessions[handlers[h].chat]
        t == sessions'[handlers[h].chat]
    IN  (OversizeChoice(h) /\ handlers'[h] # handlers[h]) =>
            /\ UNCHANGED queueVars
            /\ handlers'[h].pc # "queuedReply"
            /\ s.present => /\ t.present
                            /\ t.url = s.url
                            /\ t.userId = s.userId
                            /\ t.formats = s.formats
            /\ (s.present /\ FmtAfterRetryReply(h)) => t.formatMessageId = MessageId.retry

C12_OversizeNotQueued == [][\A h \in UpdateIds : C12_Step(h)]_vars

C12_Witness ==
    \E c \in Chats :
        /\ sessions[c].present
        /\ sessions[c].formatMessageId = MessageId.retry
        /\ Len(sessions[c].formats) = 2
        /\ nextJob = 0

\* C13: when a job's task returns a recoverable rejection, the job's
\* callback neither destroys the stored session nor changes its URL, owner or
\* candidate list; it offers the stored candidates again, with no new probe.
C13_Step(j) ==
    LET s == sessions[jobs[j].chat]
        t == sessions'[jobs[j].chat]
    IN  (/\ jobs[j].then \in {"attached", "reply"}
         /\ jobs'[j].then # jobs[j].then
         /\ jobs[j].promise.state = "resolved"
         /\ jobs[j].promise.val \in {"file-too-large", "telegram-file-too-large"}) =>
            /\ UNCHANGED handlers
            /\ s.present => /\ t.present
                            /\ t.url = s.url
                            /\ t.userId = s.userId
                            /\ t.formats = s.formats
            /\ (JobThen(j) /\ s.present /\ s.formats # << >>) => jobs'[j].then = "reply"
            /\ (JobThenAfterReply(j) /\ s.present) => t.formatMessageId = MessageId.another

C13_RecoverableKeepsSession == [][\A j \in JobIds : C13_Step(j)]_vars

C13_Witness ==
    \E j \in JobIds :
        /\ jobs[j].then = "done"
        /\ jobs[j].promise = [state |-> "resolved", val |-> "telegram-file-too-large"]
        /\ sessions[jobs[j].chat].present
        /\ sessions[jobs[j].chat].formatMessageId = MessageId.another
        /\ sessions[jobs[j].chat].formats # << >>

\* C14: when a job's task fails (its promise is rejected), the job's
\* callback leaves no session stored for the conversation.
C14_FailureDestroys ==
    [][\A j \in JobIds :
          (JobThen(j) /\ jobs[j].promise.state = "rejected")
              => ~sessions'[jobs[j].chat].present]_vars

\* C15: when the probe fails or no candidate suits the chosen kind, no
\* session remains stored for the conversation.
C15_ProbeFailureClears ==
    [][\A h \in UpdateIds :
          (TypeAfterProbe(h, "error") \/ TypeAfterProbe(h, "empty"))
              => ~sessions'[handlers[h].chat].present]_vars

\* C16: a job's callback does not touch a session that did not schedule the
\* job (a stored session with no candidate list has scheduled none), and it
\* does not store a session where none is stored.
C16_LateResultIgnored ==
    [][\A j \in JobIds :
          LET s == sessions[jobs[j].chat]
              t == sessions'[jobs[j].chat]
          IN  (JobThen(j) \/ JobThenAfterReply(j)) =>
                  /\ (s.present /\ s.formats = << >>) => t = s
                  /\ ~s.present => ~t.present]_vars

\* The jobs of conversation c that wait or whose task has not ended.
JobsInFlight(c) ==
    {j \in JobIds : jobs[j].chat = c /\ jobs[j].st \in {"waiting", "scheduled", "running"}}

\* C17: no conversation has two jobs waiting or active at a time.
C17_OneJobPerChat == \A c \in Chats : Cardinality(JobsInFlight(c)) <= 1

----------------------------------------------------------------------------
(* Properties of a job's task *)

Ended == {j \in RunIds : jobs[j].pc = "ended"}

\* C18: download.cleanup() is called once for every download that
\* downloadMedia returned, whatever the task ends with, and never twice.
C18_CleanupOnce ==
    \A j \in RunIds :
        /\ jobs[j].cleanups <= 1
        /\ ~jobs[j].download => jobs[j].cleanups = 0
        /\ (j \in Ended /\ jobs[j].download) => jobs[j].cleanups = 1

\* One task ended by an upload error that is not "too large", another by a
\* file over the size limit, each with its download cleaned up once.
C18_Witness ==
    \E a, b \in Ended :
        /\ jobs[a].download /\ jobs[a].out = Error /\ jobs[a].cleanups = 1
        /\ jobs[b].out.val = "file-too-large" /\ jobs[b].cleanups = 1

\* C19: once a task has ended, its working directory, if one was made, is
\* removed or its removal has been attempted.
C19_DirectoryCleaned ==
    \A j \in Ended : jobs[j].dir = "exists" => jobs[j].cleanups > 0

\* C20: a task ends with what its download and its upload determine, however
\* many of its status updates were lost, and the job's callback is attached.
C20_StatusFailureHarmless ==
    \A j \in RunIds :
        /\ j \in Ended => /\ jobs[j].out = taskResult(jobs[j].dl, jobs[j].up)
                          /\ jobs[j].out \in DownloadOutcomes
        /\ jobs[j].then # "never"

\* A task that lost all of its status updates and still succeeded, and a
\* failed one whose queued notice and failure notice were lost.
C20_Witness ==
    \E a, b \in Ended :
        /\ jobs[a].out.val = "success" /\ jobs[a].lost = 4
        /\ ~jobs[b].out.ok /\ jobs[b].position = 1 /\ jobs[b].then = "done"
        /\ jobs[b].lost >= 3

----------------------------------------------------------------------------
(* Further properties of the Job Queue and of the sessions *)

NoDuplicates(seq) == \A i, k \in DOMAIN seq : i # k => seq[i] # seq[k]

\* C23: a job is on the wait list at most once and only while it waits; it
\* is scheduled for its call at most once and only while it holds a slot
\* and has not been called; so its task is called at most once, and never
\* while the job is on the wait list.
C23_ConsumedOnce ==
    /\ NoDuplicates(dq.queue)
    /\ NoDuplicates(starting)
    /\ \A j \in JobIds :
          /\ (\E i \in DOMAIN dq.queue : dq.queue[i] = j) <=> jobs[j].st = "waiting"
          /\ (\E i \in DOMAIN starting : starting[i] = j) <=> jobs[j].st = "scheduled"

\* A job that waited has been called and has ended, while another waits.
C23_Witness ==
    \E a, b \in EverQueued :
        /\ jobs[a].st = "released"
        /\ jobs[b].st = "waiting"
        /\ dq.activeCount = dq.concurrency

\* C26: while a job waits every slot is taken, and the active count is
\* never negative.
C26_WorkConserving ==
    /\ dq.activeCount >= 0
    /\ dq.queue # <<>> => dq.activeCount = dq.concurrency

\* A slot has been released and handed to a waiter while another job waits.
C26_Witness ==
    /\ dq.queue # <<>>
    /\ Released # {}
    /\ dq.concurrency = 2

\* C24: a text message without a URL does not remove the stored session.
C24_TextKeepsSession ==
    [][\/ UNCHANGED sessions
       \/ \A c \in Chats, u \in Users, h \in UpdateIds :
             ~(/\ sessions[c].present
               /\ ~sessions'[c].present
               /\ \/ TextEntry(c, u, Undef)
                  \/ /\ handlers[h].url = Undef
                     /\ handlers[h].chat = c
                     /\ TextAfterDelete(h))]_vars

\* C27: the candidate list, the title and the duration attached to a stored
\* session of some URL are those of a probe of that URL.
C27_OwnCandidates ==
    \A c \in Chats :
        (sessions[c].present /\ sessions[c].url # Undef) => OwnProbeOnly(sessions[c])

\* C28: every stored session has an owner and a URL.
C28_NoPartialSession ==
    \A c \in Chats :
        sessions[c].present => sessions[c].userId # Undef /\ sessions[c].url # Undef

\* The conversation a step acts on: the one of the handler or of the job
\* callback that takes the step.
ActsOn(c) ==
    \/ \E h \in UpdateIds :
          /\ handlers'[h] # handlers[h]
          /\ c = IF handlers[h].pc = "new" THEN handlers'[h].chat ELSE handlers[h].chat
    \/ \E j \in JobIds : jobs'[j].then # jobs[j].then /\ c \in {jobs[j].chat, jobs'[j].chat}

----------------------------------------------------------------------------
(* Properties of the probe and of the format selector *)

\* C21: what the selector returns has at most 6 entries, each of the
\* requested kind.
C21_AtMostSixOfKind ==
    \A h \in ProbeIds :
        handlers[h].pc \in {"empty", "formats"} =>
            /\ Len(handlers[h].filtered) <= 6
            /\ \A i \in DOMAIN handlers[h].filtered :
                  handlers[h].filtered[i].type = handlers[h].type

\* The selector returned 6 entries for a list with more than 6 formats of
\* the requested kind and a format of the other kind.
C21_Witness ==
    \E h \in ProbeIds :
        LET given == handlers[h].result.formats
        IN  /\ handlers[h].pc = "formats"
            /\ Len(handlers[h].filtered) = 6
            /\ Cardinality({i \in DOMAIN given : given[i].type = handlers[h].type}) > 6
            /\ \E i \in DOMAIN given : given[i].type # handlers[h].type

\* C22: no two entries the selector returns for audio are offered with the
\* same bitrate preset (192 when none can be derived), and no two it
\* returns for video have the same resolution.
C22_DistinctBuckets ==
    \A h \in ProbeIds :
        handlers[h].pc = "formats" =>
            \A i, k \in DOMAIN handlers[h].filtered :
                LET a == handlers[h].filtered[i]
                    b == handlers[h].filtered[k]
                IN  i # k =>
                      IF handlers[h].type = "audio"
                      THEN a.displayLabel.bitrateKbps # b.displayLabel.bitrateKbps
                      ELSE a.resolution # b.resolution

\* C25: when every line of the listing is blank, a header, a rule, a single
\* word or a 'pass' line, or when the JSON document is absent or cannot be
\* parsed, listFormats throws and returns nothing.
C25_ProbeFails ==
    \A h \in ProbeIds :
        (/\ handlers[h].pc # "listFormats"
         /\ \/ \A i \in DOMAIN handlers[h].listOutput :
                  handlers[h].listOutput[i] \in
                      {BlankLine, HeaderLine, RuleLine, OneWordLine, PassLine}
            \/ handlers[h].infoOutput \in {"", "<html>"})
            => /\ handlers[h].result.threw
               /\ handlers[h].pc = "error"

====
